---- MODULE Spec2Model ----
(***************************************************************************)
(* Keyboard modifier handling of winit:                                    *)
(*   - x11/util/modifiers.rs: ModifierKeymap (raw X modifier table to      *)
(*     keycode -> Modifier) and ModifierKeyState (tracked modifier bits);   *)
(*   - windows/keyboard_layout.rs: WindowsModifiers (sampling and          *)
(*     synthesis of the raw key-state array), Layout and LayoutCache.      *)
(* Each part has its own specification over the shared variables.          *)
(***************************************************************************)
EXTENDS Integers, Sequences, FiniteSets, TLC

VARIABLES
    \* ---- ModifierKeyState (x11) ----
    state,          \* ModifierKeyState.state: the tracked ModifiersState
    prior,          \* history: `state` before the most recent call
    last_call,      \* history: the most recent call and its arguments
    ret,            \* history: what the most recent update_state returned
    before_press,   \* history: Some(state before the press) right after a
                    \*   key_event(Pressed, m) directly followed by key_event(Released, m)
    \* ---- physical keys driving key_event ----
    held,           \* history: the physical keys currently held down
    last_dir,       \* history: per modifier, the direction of its last key event
    \* ---- ModifierKeymap (x11) ----
    xmodmap,        \* the X server's modifier mapping: pairs <<keycode, slot>>
    keymap,         \* the XModifierKeymap handed to the most recent reset
    keys,           \* ModifierKeymap.keys: pairs <<keycode, Modifier>>
    ever_mapped,    \* history: keycodes some earlier reset gave a Modifier
    \* ---- WindowsModifiers ----
    key_state,      \* the raw per-virtual-key state array ([u8; 256])
    applied,        \* history: Some(bitset last written by apply_to_kbd_state)
    wm_in,          \* the bitset remove_only_ctrl is called on
    wm_out,         \* Some(its result)
    \* ---- LayoutCache::prepare_layout ----
    pc,             \* where prepare_layout stands
    os,             \* the OS's answers for the locale being built, per virtual key
    strings,        \* LayoutCache.strings: the interned strings
    heap,           \* number of strings leaked so far (the next one's address)
    layout,         \* the Layout under construction: keys, has_alt_graph
    mod_state,      \* the loop variable of the pass over the bitsets
    \* ---- LayoutCache ----
    installed,      \* the OS's answers for each locale id (HKL)
    active,         \* the active locale id: GetKeyboardLayout(0)
    layouts,        \* LayoutCache.layouts
    built,          \* history: per locale id, the number of prepare_layout runs
    inserted,       \* history: per locale id, the Layout as it was inserted
    returned,       \* history: Some(what the most recent get_current_layout did)
    ever_interned,  \* history: every entry the string pool has held
    \* ---- LAYOUT_CACHE: Mutex<LayoutCache> ----
    lock,           \* the thread holding the mutex, if any
    tpc,            \* where each thread stands
    tlocale,        \* each thread's local locale_id
    \* ---- get_agnostic_mods ----
    pressed,        \* the virtual keys GetKeyState reports down
    agnostic        \* Some(what the most recent get_agnostic_mods returned)

vars == << state, prior, last_call, ret, before_press, held, last_dir,
           xmodmap, keymap, keys, ever_mapped, key_state, applied, wm_in, wm_out,
           pc, os, strings, heap, layout, mod_state,
           installed, active, layouts, built, inserted, returned, ever_interned,
           lock, tpc, tlocale, pressed, agnostic >>

trackerVars == << state, prior, last_call, ret, before_press >>
keysVars    == << held, last_dir >>
keymapVars  == << xmodmap, keymap, keys, ever_mapped >>
kbdVars     == << key_state, applied >>
modsVars    == << wm_in, wm_out >>
layoutVars  == << pc, os, strings, heap, layout, mod_state >>
buildVars   == << pc, os, layout, mod_state >>
poolVars    == << strings, heap, ever_interned >>
storeVars   == << installed, active, layouts, built, inserted, returned >>
threadVars  == << lock, tpc, tlocale >>
agnosticVars == << pressed, agnostic >>
cacheVars   == << storeVars, ever_interned, threadVars, agnosticVars >>

\* Option<T>
None == << >>
Some(x) == << x >>

(***************************************************************************)
(* x11/util/modifiers.rs: ModifierKeyState                                 *)
(***************************************************************************)

\* enum Modifier
Modifier == {"Alt", "Ctrl", "Shift", "Logo"}

\* The flags of keyboard::ModifiersState that the tracker reads and writes.
ModifiersStateFlags == {"SHIFT", "CONTROL", "ALT", "SUPER"}

\* Every ModifiersState value.
ModifiersState == SUBSET ModifiersStateFlags

\* ElementState
ElementState == {"Pressed", "Released"}

\* ModifiersState::set(flag, value)
set(s, flag, value) == IF value THEN s \cup {flag} ELSE s \ {flag}

\* The flag each Modifier arm of the match statements names.
FlagOf(m) ==
    CASE m = "Alt"   -> "ALT"
      [] m = "Ctrl"  -> "CONTROL"
      [] m = "Shift" -> "SHIFT"
      [] m = "Logo"  -> "SUPER"

\* A slip: the excepted flag is taken from the external state like the rest.
new_state_no_except(self, external, except) == external

\* update_state, lines 103-113: the external state with the excepted
\* modifier's flag taken from the tracker.
new_state(self, external, except) ==
    IF except = None
    THEN external
    ELSE set(external, FlagOf(except[1]), FlagOf(except[1]) \in self)

\* A slip: always reports a change.
update_result_always_some(self, ns) == [state |-> ns, ret |-> Some(ns)]

\* update_state, lines 115-120: compare, assign, return.
update_result(self, ns) ==
    IF self = ns
    THEN [state |-> self, ret |-> None]
    ELSE [state |-> ns, ret |-> Some(ns)]

\* A slip: the value is ignored and the flag always set.
set_modifier_always(s, modifier, value) == set(s, FlagOf(modifier), TRUE)

\* set_modifier
set_modifier(s, modifier, value) == set(s, FlagOf(modifier), value)

\* key_press
key_press(s, modifier) == set_modifier(s, modifier, TRUE)

\* A slip: release leaves the tracker alone.
key_release_noop(s, modifier) == s

\* key_release
key_release(s, modifier) == set_modifier(s, modifier, FALSE)

\* key_event
key_event(s, dir, modifier) ==
    IF dir = "Pressed" THEN key_press(s, modifier) ELSE key_release(s, modifier)

\* ModifierKeyState::default()
InitTracker ==
    /\ state = {}
    /\ prior = {}
    /\ last_call = [op |-> "none"]
    /\ ret = None
    /\ before_press = None

\* pub fn update_state(&mut self, state, except)
UpdateState(external, except) ==
    LET r == update_result(state, new_state(state, external, except)) IN
    /\ state' = r.state
    /\ ret' = r.ret
    /\ prior' = state
    /\ last_call' = [op |-> "update_state", external |-> external, except |-> except,
                     repeat |-> /\ last_call.op = "update_state"
                                /\ last_call.external = external
                                /\ last_call.except = except]
    /\ before_press' = None
    /\ UNCHANGED << keysVars, keymapVars, kbdVars, modsVars, layoutVars,
                    cacheVars >>

\* pub fn key_event(&mut self, state, modifier)
KeyEvent(dir, modifier) ==
    /\ state' = key_event(state, dir, modifier)
    /\ ret' = None
    /\ prior' = state
    /\ last_call' = [op |-> "key_event", dir |-> dir, modifier |-> modifier]
    /\ before_press' =
         IF /\ dir = "Released"
            /\ last_call.op = "key_event"
            /\ last_call.dir = "Pressed"
            /\ last_call.modifier = modifier
         THEN Some(prior)
         ELSE None
    /\ UNCHANGED << keysVars, keymapVars, kbdVars, modsVars, layoutVars,
                    cacheVars >>

(***************************************************************************)
(* Physical keys: several keys may carry the same Modifier; the caller     *)
(* looks the key's Modifier up and hands key_event only the Modifier.      *)
(***************************************************************************)

\* Physical keys per modifier.
KeysPerModifier == 2

PhysKeys == Modifier \X (1 .. KeysPerModifier)

InitKeys ==
    /\ held = {}
    /\ last_dir = [m \in Modifier |-> "none"]

\* A press or release of physical key k reaches key_event as k's Modifier.
PhysKeyEvent(dir, k) ==
    /\ state' = key_event(state, dir, k[1])
    /\ held' = IF dir = "Pressed" THEN held \cup {k} ELSE held \ {k}
    /\ last_dir' = [last_dir EXCEPT ![k[1]] = dir]
    /\ UNCHANGED << prior, last_call, ret, before_press >>
    /\ UNCHANGED << keymapVars, kbdVars, modsVars, layoutVars,
                    cacheVars >>

(***************************************************************************)
(* x11/util/modifiers.rs: ModifierKeymap                                   *)
(***************************************************************************)

SHIFT_OFFSET == 0
CONTROL_OFFSET == 2
ALT_OFFSET == 3
LOGO_OFFSET == 6
NUM_MODS == 8

\* Largest keycode the X server's mapping uses (0 is padding).
MaxKeycode == 1

\* Largest number of sets of the server's mapping one keycode is in.
MaxSetsPerKeycode == 2

KeyCodes == 0 .. MaxKeycode
Slots == 0 .. (NUM_MODS - 1)

\* The sets of the raw table, by offset (comment at lines 11-12):
\* Shift, Lock, Control, Mod1 (Alt), Mod2, Mod3, Mod4 (Logo), Mod5.
SlotModifier(s) ==
    CASE s = 0 -> "Shift"
      [] s = 1 -> "Lock"
      [] s = 2 -> "Ctrl"
      [] s = 3 -> "Alt"
      [] s = 4 -> "Mod2"
      [] s = 5 -> "Mod3"
      [] s = 6 -> "Logo"
      [] s = 7 -> "Mod5"

\* The elements of a set of numbers in ascending order.
RECURSIVE Ascending(_)
Ascending(S) ==
    IF S = {} THEN << >>
    ELSE LET lo == CHOOSE x \in S : \A y \in S : x <= y
         IN << lo >> \o Ascending(S \ {lo})

RECURSIVE Zeros(_)
Zeros(n) == IF n <= 0 THEN << >> ELSE << 0 >> \o Zeros(n - 1)

Max(S) == IF S = {} THEN 0 ELSE CHOOSE x \in S : \A y \in S : y <= x

\* XGetModifierMapping: the server's mapping as an XModifierKeymap, eight
\* rows of max_keypermod keycodes each, short rows padded with zeros.
XGetModifierMapping(map) ==
    LET row(s) == Ascending({p[1] : p \in {q \in map : q[2] = s}})
        n == Max({Len(row(s)) : s \in Slots})
        padded(s) == row(s) \o Zeros(n - Len(row(s)))
        RECURSIVE rows(_)
        rows(s) == IF s >= NUM_MODS THEN << >> ELSE padded(s) \o rows(s + 1)
    IN [max_keypermod |-> n, modifiermap |-> rows(0)]

\* A slip: the reset does not clear the map.
clear_noop(ks) == ks

\* HashMap::clear
clear(ks) == {}

\* A slip: an occupied entry is kept (entry().or_insert).
insert_keep_first(ks, k, v) ==
    IF \E p \in ks : p[1] = k THEN ks ELSE ks \cup {<< k, v >>}

\* HashMap::insert: replaces the value of an occupied entry.
insert(ks, k, v) == {p \in ks : p[1] # k} \cup {<< k, v >>}

\* A slip: padding zeros are inserted like keycodes.
RECURSIVE read_slice_no_skip(_, _, _, _, _)
read_slice_no_skip(ks, raw, i, end, modifier) ==
    IF i >= end THEN ks
    ELSE read_slice_no_skip(insert(ks, raw[i + 1], modifier), raw, i + 1, end, modifier)

\* read_x_keys, lines 89-93: the loop over keys[start..end], from index i.
RECURSIVE read_slice(_, _, _, _, _)
read_slice(ks, raw, i, end, modifier) ==
    IF i >= end THEN ks
    ELSE read_slice(IF raw[i + 1] # 0 THEN insert(ks, raw[i + 1], modifier) ELSE ks,
                    raw, i + 1, end, modifier)

\* read_x_keys
read_x_keys(ks, raw, offset, keys_per_mod, modifier) ==
    LET start == offset * keys_per_mod
        end == start + keys_per_mod
    IN read_slice(ks, raw, start, end, modifier)

\* reset_from_x_keymap
reset_from_x_keymap(ks, km) ==
    LET keys_per_mod == km.max_keypermod
        raw == km.modifiermap
        k0 == clear(ks)
        k1 == read_x_keys(k0, raw, SHIFT_OFFSET, keys_per_mod, "Shift")
        k2 == read_x_keys(k1, raw, CONTROL_OFFSET, keys_per_mod, "Ctrl")
        k3 == read_x_keys(k2, raw, ALT_OFFSET, keys_per_mod, "Alt")
    IN read_x_keys(k3, raw, LOGO_OFFSET, keys_per_mod, "Logo")

\* get_modifier
get_modifier(ks, keycode) ==
    IF \E p \in ks : p[1] = keycode
    THEN Some((CHOOSE p \in ks : p[1] = keycode)[2])
    ELSE None

\* The server mappings considered: every keycode in few enough sets.
ServerMappings ==
    {map \in SUBSET ((1 .. MaxKeycode) \X Slots) :
        \A k \in 1 .. MaxKeycode :
            Cardinality({p \in map : p[1] = k}) <= MaxSetsPerKeycode}

\* ModifierKeymap::new(), in front of any server mapping.
InitKeymap ==
    /\ xmodmap \in ServerMappings
    /\ keymap = None
    /\ keys = {}
    /\ ever_mapped = {}

\* The mappings one XSetModifierMapping edit away: one keycode added to or
\* removed from one set.
OneEdit(map) ==
    {(map \ {e}) \cup ({e} \ map) : e \in (1 .. MaxKeycode) \X Slots} \cap ServerMappings

\* reset_from_x_connection: reads the server's mapping, which may have been
\* edited since it was last read, and rebuilds the map from it.
ResetFromXConnection ==
    \E new \in OneEdit(xmodmap) \cup {xmodmap} :
        LET km == XGetModifierMapping(new) IN
        /\ xmodmap' = new
        /\ keymap' = Some(km)
        /\ keys' = reset_from_x_keymap(keys, km)
        /\ ever_mapped' = ever_mapped \cup {p[1] : p \in keys}
        /\ UNCHANGED << trackerVars, keysVars, kbdVars, modsVars, layoutVars,
                    cacheVars >>

(***************************************************************************)
(* windows/keyboard_layout.rs: WindowsModifiers                            *)
(***************************************************************************)

\* bitflags! WindowsModifiers : u8
SHIFT == 1
CONTROL == 2
ALT == 4
CAPS_LOCK == 8
FLAGS_END == 16

\* Every u8 a WindowsModifiers can hold (from_bits_unchecked).
WindowsModifiers == 0 .. 255

\* winuser virtual-key codes the sampling and synthesis index key_state with.
VK_SHIFT == 16
VK_CONTROL == 17
VK_MENU == 18
VK_CAPITAL == 20
VK_LSHIFT == 160
VK_RSHIFT == 161
VK_LCONTROL == 162
VK_RCONTROL == 163
VK_LMENU == 164
VK_RMENU == 165

\* The entries of the [u8; 256] array this code reads or writes.
KbdKeys == {VK_SHIFT, VK_LSHIFT, VK_RSHIFT, VK_CONTROL, VK_LCONTROL, VK_RCONTROL,
            VK_MENU, VK_LMENU, VK_RMENU, VK_CAPITAL}

\* bitflags contains / intersects for a single flag: self & flag != 0
contains(self, flag) == (self \div flag) % 2 = 1
intersects(self, flag) == (self \div flag) % 2 = 1

\* bitflags insert / remove
wm_insert(self, flag) == IF contains(self, flag) THEN self ELSE self + flag
remove(self, flag) == IF contains(self, flag) THEN self - flag ELSE self

\* byte & 0x80 != 0, byte & 0x01 != 0, byte |= 0x80, byte &= !0x80
down(byte) == (byte \div 128) % 2 = 1
toggled(byte) == byte % 2 = 1
or_0x80(byte) == IF down(byte) THEN byte ELSE byte + 128
and_not_0x80(byte) == IF down(byte) THEN byte - 128 ELSE byte

\* WindowsModifiers::active_modifiers
active_modifiers(ks) ==
    LET shift == down(ks[VK_SHIFT])
        lshift == down(ks[VK_LSHIFT])
        rshift == down(ks[VK_RSHIFT])
        control == down(ks[VK_CONTROL])
        lcontrol == down(ks[VK_LCONTROL])
        rcontrol == down(ks[VK_RCONTROL])
        alt == down(ks[VK_MENU])
        lalt == down(ks[VK_LMENU])
        ralt == down(ks[VK_RMENU])
        caps == toggled(ks[VK_CAPITAL])
        r0 == 0
        r1 == IF shift \/ lshift \/ rshift THEN wm_insert(r0, SHIFT) ELSE r0
        r2 == IF control \/ lcontrol \/ rcontrol THEN wm_insert(r1, CONTROL) ELSE r1
        r3 == IF alt \/ lalt \/ ralt THEN wm_insert(r2, ALT) ELSE r2
    IN IF caps THEN wm_insert(r3, CAPS_LOCK) ELSE r3

\* One if/else of apply_to_kbd_state: the generic key is marked down when the
\* flag is set; the generic, left and right keys are cleared when it is not.
apply_flag(self, ks, flag, generic, sides) ==
    IF intersects(self, flag)
    THEN [ks EXCEPT ![generic] = or_0x80(@)]
    ELSE [k \in DOMAIN ks |->
            IF k = generic \/ k \in sides THEN and_not_0x80(ks[k]) ELSE ks[k]]

\* A slip: an absent flag clears only the generic key.
apply_to_kbd_state_generic_only(self, ks) ==
    LET s1 == apply_flag(self, ks, SHIFT, VK_SHIFT, {})
        s2 == apply_flag(self, s1, CONTROL, VK_CONTROL, {})
        s3 == apply_flag(self, s2, ALT, VK_MENU, {})
    IN apply_flag(self, s3, CAPS_LOCK, VK_CAPITAL, {})

\* A slip: Caps Lock is written to the toggle bit, the bit active_modifiers
\* samples.
apply_to_kbd_state_caps_toggle(self, ks) ==
    LET s1 == apply_flag(self, ks, SHIFT, VK_SHIFT, {VK_LSHIFT, VK_RSHIFT})
        s2 == apply_flag(self, s1, CONTROL, VK_CONTROL, {VK_LCONTROL, VK_RCONTROL})
        s3 == apply_flag(self, s2, ALT, VK_MENU, {VK_LMENU, VK_RMENU})
    IN IF intersects(self, CAPS_LOCK)
       THEN [s3 EXCEPT ![VK_CAPITAL] = IF toggled(@) THEN @ ELSE @ + 1]
       ELSE [s3 EXCEPT ![VK_CAPITAL] = IF toggled(@) THEN @ - 1 ELSE @]

\* WindowsModifiers::apply_to_kbd_state
apply_to_kbd_state(self, ks) ==
    LET s1 == apply_flag(self, ks, SHIFT, VK_SHIFT, {VK_LSHIFT, VK_RSHIFT})
        s2 == apply_flag(self, s1, CONTROL, VK_CONTROL, {VK_LCONTROL, VK_RCONTROL})
        s3 == apply_flag(self, s2, ALT, VK_MENU, {VK_LMENU, VK_RMENU})
    IN apply_flag(self, s3, CAPS_LOCK, VK_CAPITAL, {})

\* A slip: the test is inverted.
remove_only_ctrl_inverted(self) ==
    IF contains(self, ALT) THEN remove(self, CONTROL) ELSE self

\* WindowsModifiers::remove_only_ctrl
remove_only_ctrl(self) ==
    IF ~contains(self, ALT) THEN remove(self, CONTROL) ELSE self

\* let mut key_state = [0u8; 256]
ZeroKeyState == [k \in KbdKeys |-> 0]

\* Any raw key-state array: the down bit of every key, and the toggle bit
\* of Caps Lock as well.
InitKbd ==
    /\ key_state \in [KbdKeys -> {0, 1, 128, 129}]
    /\ \A k \in KbdKeys \ {VK_CAPITAL} : key_state[k] \in {0, 128}
    /\ applied = None

\* mod_state.apply_to_kbd_state(&mut key_state), for one of the bitsets
\* 0..FLAGS_END that prepare_layout enumerates.
ApplyToKbdState(b) ==
    /\ key_state' = apply_to_kbd_state(b, key_state)
    /\ applied' = Some(b)
    /\ UNCHANGED << trackerVars, keysVars, keymapVars, modsVars, layoutVars,
                    cacheVars >>

\* Any bitset a caller may hold.
InitMods ==
    /\ wm_in \in WindowsModifiers
    /\ wm_out = None

\* mods.remove_only_ctrl()
RemoveOnlyCtrl ==
    /\ wm_out = None
    /\ wm_out' = Some(remove_only_ctrl(wm_in))
    /\ UNCHANGED << wm_in, trackerVars, keysVars, keymapVars, kbdVars, layoutVars,
                    cacheVars >>

(***************************************************************************)
(* windows/keyboard_layout.rs: Layout and LayoutCache::prepare_layout      *)
(***************************************************************************)

\* Virtual keys enumerated by prepare_layout: 0 .. NumVK - 1 (the code's 0..256).
NumVK == 2

VKeys == 0 .. (NumVK - 1)

\* Extended scancodes: right Alt, numpad divide, a letter key.
SC_ALT_RIGHT == 57400
SC_NUMPAD_DIVIDE == 57397
SC_KEY_A == 30

\* KeyCode
KeyCode_AltRight == [code |-> "AltRight", native |-> 0]
KeyCode_NumpadDivide == [code |-> "NumpadDivide", native |-> 0]
KeyCode_KeyA == [code |-> "KeyA", native |-> 0]

\* platform::keyboard::native_key_to_code
native_key_to_code(scancode) ==
    CASE scancode = SC_ALT_RIGHT -> KeyCode_AltRight
      [] scancode = SC_NUMPAD_DIVIDE -> KeyCode_NumpadDivide
      [] scancode = SC_KEY_A -> KeyCode_KeyA
      [] OTHER -> [code |-> "Unidentified", native |-> scancode]

\* Key<'static>
Unidentified(native) == [tag |-> "Unidentified", native |-> native]
Character(ref) == [tag |-> "Character", ref |-> ref]
Dead(ch) == [tag |-> "Dead", ch |-> ch]
AltGraph == [tag |-> "AltGraph"]
Named(key_code) == [tag |-> "Named", code |-> key_code.code]

\* The string literal "/" of line 250: static data, not a leaked string.
StaticSlash == [addr |-> 0, text |-> "/"]

\* What the OS answers for one virtual key of a locale: its scancode
\* (0: the key does not exist), whether it is a non-printable key, and how
\* ToUnicodeEx composes it:
\*   none       nothing
\*   plain      "a" under every key state
\*   altgr      "b" when Control and Alt are down, "a" otherwise
\*   slash      "/" under every key state
\*   dead_none  a dead key (accent "^"); the second call returns nothing
\*   dead_char  a dead key (accent "^"); the second call returns the accent
ComposeKinds == {"none", "plain", "altgr", "slash", "dead_none", "dead_char"}

KeyProfiles ==
    {[scancode |-> 0, named |-> FALSE, kind |-> "none"]}
    \cup {[scancode |-> sc, named |-> TRUE, kind |-> "none"] :
            sc \in {SC_KEY_A, SC_NUMPAD_DIVIDE, SC_ALT_RIGHT}}
    \cup {[scancode |-> sc, named |-> FALSE, kind |-> k] :
            sc \in {SC_KEY_A, SC_NUMPAD_DIVIDE, SC_ALT_RIGHT}, k \in ComposeKinds}

Locales == [VKeys -> KeyProfiles]

\* winuser::MapVirtualKeyExW(vk, MAPVK_VK_TO_VSC_EX, locale)
MapVirtualKeyExW(locale, vk) == locale[vk].scancode

\* platform::keyboard::vkey_to_non_printable(vk, native_code, key_code, locale, false)
vkey_to_non_printable(locale, vk, native_code, key_code) ==
    IF locale[vk].named THEN Named(key_code) ELSE Unidentified(native_code)

\* winuser::ToUnicodeEx: the length it returns and the text it leaves in the
\* buffer, on the nth of to_unicode_string's calls.
ToUnicodeEx(locale, vk, ks, nth) ==
    LET kind == locale[vk].kind
        ctrl == down(ks[VK_CONTROL]) \/ down(ks[VK_LCONTROL]) \/ down(ks[VK_RCONTROL])
        alt == down(ks[VK_MENU]) \/ down(ks[VK_LMENU]) \/ down(ks[VK_RMENU])
    IN CASE kind = "none" -> [len |-> 0, buf |-> ""]
         [] kind = "plain" -> [len |-> 1, buf |-> "a"]
         [] kind = "altgr" -> [len |-> 1, buf |-> IF ctrl /\ alt THEN "b" ELSE "a"]
         [] kind = "slash" -> [len |-> 1, buf |-> "/"]
         [] kind = "dead_none" ->
                IF nth = 1 THEN [len |-> -1, buf |-> "^"] ELSE [len |-> 0, buf |-> "^"]
         [] kind = "dead_char" ->
                IF nth = 1 THEN [len |-> -1, buf |-> "^"] ELSE [len |-> 1, buf |-> "^"]

\* enum ToUnicodeResult
Str(text) == [tag |-> "Str", str |-> text]
DeadResult(ch) == [tag |-> "Dead", ch |-> ch]
NoneResult == [tag |-> "None"]

\* A slip: a dead key whose second call returns nothing keeps the accent the
\* first call left in the buffer.
to_unicode_string_keeps_first(locale, ks, vk) ==
    LET first == ToUnicodeEx(locale, vk, ks, 1)
        second == ToUnicodeEx(locale, vk, ks, 2)
    IN IF first.len < 0
       THEN IF second.len > 0 THEN DeadResult(Some(second.buf))
            ELSE DeadResult(Some(first.buf))
       ELSE IF first.len > 0 THEN Str(first.buf) ELSE NoneResult

\* LayoutCache::to_unicode_string
to_unicode_string(locale, ks, vk) ==
    LET first == ToUnicodeEx(locale, vk, ks, 1)
        second == ToUnicodeEx(locale, vk, ks, 2)
    IN IF first.len < 0
       THEN IF second.len > 0 THEN DeadResult(Some(second.buf)) ELSE DeadResult(None)
       ELSE IF first.len > 0 THEN Str(first.buf) ELSE NoneResult

\* A slip: an equal string already in the pool is not looked for.
get_or_insert_str_always_leaks(pool, leaked, string) ==
    LET new == [addr |-> leaked + 1, text |-> string]
    IN [ref |-> new, strings |-> pool \cup {new}, heap |-> leaked + 1]

\* A slip: the leaked string is not inserted into the pool.
get_or_insert_str_not_inserted(pool, leaked, string) ==
    IF \E r \in pool : r.text = string
    THEN [ref |-> CHOOSE r \in pool : r.text = string, strings |-> pool, heap |-> leaked]
    ELSE LET new == [addr |-> leaked + 1, text |-> string]
         IN [ref |-> new, strings |-> pool, heap |-> leaked + 1]

\* get_or_insert_str: the interned reference, and the pool and the count of
\* leaked strings after the call.
get_or_insert_str(pool, leaked, string) ==
    IF \E r \in pool : r.text = string
    THEN [ref |-> CHOOSE r \in pool : r.text = string, strings |-> pool, heap |-> leaked]
    ELSE LET new == [addr |-> leaked + 1, text |-> string]
         IN [ref |-> new, strings |-> pool \cup {new}, heap |-> leaked + 1]

\* HashMap::insert on a map held as a function
put(map, k, v) == [x \in DOMAIN map \cup {k} |-> IF x = k THEN v ELSE map[x]]

EmptyMap == << >>

\* A slip: the comparison is not guarded by !layout.has_alt_graph.
alt_graph_check_unguarded(has_alt_graph, is_in_ctrl_alt, layout_keys, key_code, key) ==
    IF is_in_ctrl_alt
    THEN IF 0 \notin DOMAIN layout_keys
         THEN [panic |-> TRUE, has_alt_graph |-> has_alt_graph]
         ELSE LET simple_keys == layout_keys[0] IN
              IF /\ key_code \in DOMAIN simple_keys
                 /\ simple_keys[key_code].tag = "Character"
                 /\ key.tag = "Character"
              THEN [panic |-> FALSE,
                    has_alt_graph |-> key.ref.text # simple_keys[key_code].ref.text]
              ELSE [panic |-> FALSE, has_alt_graph |-> has_alt_graph]
    ELSE [panic |-> FALSE, has_alt_graph |-> has_alt_graph]

\* A slip: the comparison reads the table of the bitset being built, which
\* is stored only after the loop over the virtual keys.
alt_graph_check_own_table(has_alt_graph, is_in_ctrl_alt, layout_keys, key_code, key) ==
    IF ~has_alt_graph /\ is_in_ctrl_alt
    THEN IF (CONTROL + ALT) \notin DOMAIN layout_keys
         THEN [panic |-> TRUE, has_alt_graph |-> has_alt_graph]
         ELSE LET simple_keys == layout_keys[CONTROL + ALT] IN
              IF /\ key_code \in DOMAIN simple_keys
                 /\ simple_keys[key_code].tag = "Character"
                 /\ key.tag = "Character"
              THEN [panic |-> FALSE,
                    has_alt_graph |-> key.ref.text # simple_keys[key_code].ref.text]
              ELSE [panic |-> FALSE, has_alt_graph |-> has_alt_graph]
    ELSE [panic |-> FALSE, has_alt_graph |-> has_alt_graph]

\* prepare_layout, lines 262-273: the check for alt graph. The &str
\* comparison is by text. panic: the unwrap of the empty bitset's table fails.
alt_graph_check(has_alt_graph, is_in_ctrl_alt, layout_keys, key_code, key) ==
    IF ~has_alt_graph /\ is_in_ctrl_alt
    THEN IF 0 \notin DOMAIN layout_keys
         THEN [panic |-> TRUE, has_alt_graph |-> has_alt_graph]
         ELSE LET simple_keys == layout_keys[0] IN
              IF /\ key_code \in DOMAIN simple_keys
                 /\ simple_keys[key_code].tag = "Character"
                 /\ key.tag = "Character"
              THEN [panic |-> FALSE,
                    has_alt_graph |-> key.ref.text # simple_keys[key_code].ref.text]
              ELSE [panic |-> FALSE, has_alt_graph |-> has_alt_graph]
    ELSE [panic |-> FALSE, has_alt_graph |-> has_alt_graph]

\* A slip: the workaround does not look at Control and Alt.
none_arm_any_mods(ms, key_code, preliminary_key) ==
    IF key_code = KeyCode_NumpadDivide
    THEN Character(StaticSlash)
    ELSE preliminary_key

\* prepare_layout, lines 244-255: the ToUnicodeResult::None arm, with the
\* workaround for the numpad divide key.
none_arm(ms, key_code, preliminary_key) ==
    LET has_alt == contains(ms, ALT)
        has_ctrl == contains(ms, CONTROL)
    IN IF ~has_alt /\ ~has_ctrl /\ key_code = KeyCode_NumpadDivide
       THEN Character(StaticSlash)
       ELSE preliminary_key

\* prepare_layout, lines 211-275: the body of the loop over the virtual
\* keys. acc carries keys_for_this_mod (kfm), the string pool, the count of
\* leaked strings, layout.has_alt_graph and whether the function panicked.
vk_body(acc, vk, ms, ks, layout_keys, locale) ==
    LET scancode == MapVirtualKeyExW(locale, vk)
        native_code == scancode
        key_code == native_key_to_code(scancode)
        preliminary_key == vkey_to_non_printable(locale, vk, native_code, key_code)
        unicode == to_unicode_string(locale, ks, vk)
        interned == IF unicode.tag = "Str"
                    THEN get_or_insert_str(acc.strings, acc.heap, unicode.str)
                    ELSE [ref |-> StaticSlash, strings |-> acc.strings, heap |-> acc.heap]
        key == CASE unicode.tag = "Str" -> Character(interned.ref)
                 [] unicode.tag = "Dead" -> Dead(unicode.ch)
                 [] unicode.tag = "None" -> none_arm(ms, key_code, preliminary_key)
        ctrl_alt == CONTROL + ALT
        checked == alt_graph_check(acc.has_alt_graph, ms = ctrl_alt, layout_keys,
                                   key_code, key)
    IN IF acc.panicked \/ scancode = 0 THEN acc
       ELSE IF preliminary_key.tag # "Unidentified"
       THEN [acc EXCEPT !.kfm = put(@, key_code, preliminary_key)]
       ELSE IF checked.panic
       THEN [acc EXCEPT !.strings = interned.strings, !.heap = interned.heap,
                        !.panicked = TRUE]
       ELSE [kfm |-> put(acc.kfm, key_code, key),
             strings |-> interned.strings,
             heap |-> interned.heap,
             has_alt_graph |-> checked.has_alt_graph,
             panicked |-> FALSE]

\* prepare_layout, line 210: for vk in 0..256, from vk on.
RECURSIVE vk_loop(_, _, _, _, _, _)
vk_loop(acc, vk, ms, ks, layout_keys, locale) ==
    IF vk >= NumVK THEN acc
    ELSE vk_loop(vk_body(acc, vk, ms, ks, layout_keys, locale),
                 vk + 1, ms, ks, layout_keys, locale)

\* A slip: the second pass patches the table of the empty bitset only.
second_pass_first_only(l) ==
    IF l.has_alt_graph
    THEN [l EXCEPT !.keys =
            [m \in DOMAIN l.keys |->
                IF m = 0 /\ KeyCode_AltRight \in DOMAIN l.keys[m]
                THEN [l.keys[m] EXCEPT ![KeyCode_AltRight] = AltGraph]
                ELSE l.keys[m]]]
    ELSE l

\* prepare_layout, lines 280-290: the second pass.
second_pass(l) ==
    IF l.has_alt_graph
    THEN [l EXCEPT !.keys =
            [m \in DOMAIN l.keys |->
                IF m \in 0 .. (FLAGS_END - 1) /\ KeyCode_AltRight \in DOMAIN l.keys[m]
                THEN [l.keys[m] EXCEPT ![KeyCode_AltRight] = AltGraph]
                ELSE l.keys[m]]]
    ELSE l

\* Layout::get_key
get_key(l, mods, scancode, keycode) ==
    IF mods \in DOMAIN l.keys /\ keycode \in DOMAIN l.keys[mods]
    THEN l.keys[mods][keycode]
    ELSE Unidentified(scancode)

\* prepare_layout entered for a locale with any of the OS answers, on an
\* empty cache: lines 189-199.
InitLayout ==
    /\ pc = "first_pass"
    /\ os \in Locales
    /\ strings = {}
    /\ heap = 0
    /\ layout = [keys |-> EmptyMap, has_alt_graph |-> FALSE]
    /\ mod_state = 0
    /\ key_state = ZeroKeyState
    /\ applied = None

\* prepare_layout, lines 200-278: one round of the loop over the bitsets.
FirstPass ==
    /\ pc = "first_pass"
    /\ LET ks == apply_to_kbd_state(mod_state, key_state)
           acc == vk_loop([kfm |-> EmptyMap, strings |-> strings, heap |-> heap,
                           has_alt_graph |-> layout.has_alt_graph, panicked |-> FALSE],
                          0, mod_state, ks, layout.keys, os)
       IN /\ key_state' = ks
          /\ strings' = acc.strings
          /\ heap' = acc.heap
          /\ IF acc.panicked
             THEN /\ pc' = "panicked"
                  /\ layout' = [layout EXCEPT !.has_alt_graph = acc.has_alt_graph]
                  /\ mod_state' = mod_state
             ELSE /\ layout' = [keys |-> put(layout.keys, mod_state, acc.kfm),
                                has_alt_graph |-> acc.has_alt_graph]
                  /\ mod_state' = mod_state + 1
                  /\ pc' = IF mod_state + 1 >= FLAGS_END THEN "second_pass" ELSE "first_pass"
    /\ UNCHANGED << os, applied, trackerVars, keysVars, keymapVars, modsVars,
                    cacheVars >>

\* prepare_layout, lines 280-292: the second pass and the return.
SecondPass ==
    /\ pc = "second_pass"
    /\ layout' = second_pass(layout)
    /\ pc' = "done"
    /\ UNCHANGED << os, strings, heap, mod_state, kbdVars,
                    trackerVars, keysVars, keymapVars, modsVars, cacheVars >>

(***************************************************************************)
(* windows/keyboard_layout.rs: LayoutCache                                 *)
(***************************************************************************)

\* Locale identifiers (HKL) the OS can report as active.
LocaleIds == {"en-US", "de-DE"}

\* The OS's answers for the installed locales: a key composing "a" and,
\* with Control and Alt, "b"; a numpad divide key composing nothing; a right
\* Alt key composing "/".
CacheProfiles ==
    {[scancode |-> SC_KEY_A, named |-> FALSE, kind |-> "altgr"],
     [scancode |-> SC_NUMPAD_DIVIDE, named |-> FALSE, kind |-> "none"],
     [scancode |-> SC_ALT_RIGHT, named |-> FALSE, kind |-> "slash"]}

CacheLocales == [VKeys -> CacheProfiles]

\* The locales whose virtual keys all answer alike.
UniformLocales == {l \in CacheLocales : \A v, w \in VKeys : l[v] = l[w]}

\* The value of the one-element set S.
TheOne(S) == CHOOSE x \in S : TRUE

\* prepare_layout, lines 200-278: the loop over the bitsets, from ms on.
\* Each round's results (the key state ks1, the accumulator acc of the loop
\* over the virtual keys) are bound as values before the next round starts.
RECURSIVE mod_state_loop(_, _, _, _, _, _)
mod_state_loop(l, pool, leaked, ks, ms, locale) ==
    IF ms >= FLAGS_END
    THEN [layout |-> l, strings |-> pool, heap |-> leaked, panicked |-> FALSE]
    ELSE TheOne({
            IF acc.panicked
            THEN [layout |-> [l EXCEPT !.has_alt_graph = acc.has_alt_graph],
                  strings |-> acc.strings, heap |-> acc.heap, panicked |-> TRUE]
            ELSE mod_state_loop([keys |-> put(l.keys, ms, acc.kfm),
                                 has_alt_graph |-> acc.has_alt_graph],
                                acc.strings, acc.heap, ks1, ms + 1, locale) :
            <<ks1, acc>> \in
                {<<k, vk_loop([kfm |-> EmptyMap, strings |-> pool, heap |-> leaked,
                               has_alt_graph |-> l.has_alt_graph, panicked |-> FALSE],
                              0, ms, k, l.keys, locale)>> :
                     k \in {apply_to_kbd_state(ms, ks)}}})

\* LayoutCache::prepare_layout(strings, locale_id): the Layout, and the pool
\* and the count of leaked strings after the call.
prepare_layout(pool, leaked, locale) ==
    LET r == mod_state_loop([keys |-> EmptyMap, has_alt_graph |-> FALSE],
                            pool, leaked, ZeroKeyState, 0, locale)
    IN IF r.panicked THEN r ELSE [r EXCEPT !.layout = second_pass(@)]

\* A slip: the Occupied arm prepares and stores the layout again.
get_current_layout_rebuilds(cache, locale_id, locale) ==
    LET r == prepare_layout(cache.strings, cache.heap, locale)
    IN [layouts |-> IF r.panicked THEN cache.layouts
                    ELSE put(cache.layouts, locale_id, r.layout),
        strings |-> r.strings,
        heap |-> r.heap,
        locale_id |-> locale_id,
        layout |-> r.layout,
        prepared |-> TRUE,
        panicked |-> r.panicked]

\* LayoutCache::get_current_layout, for the locale id GetKeyboardLayout
\* returned and the OS's answers for it: the cache after the call, the
\* (locale_id, layout) returned, and whether prepare_layout ran.
get_current_layout(cache, locale_id, locale) ==
    IF locale_id \in DOMAIN cache.layouts
    THEN [layouts |-> cache.layouts,
          strings |-> cache.strings,
          heap |-> cache.heap,
          locale_id |-> locale_id,
          layout |-> cache.layouts[locale_id],
          prepared |-> FALSE,
          panicked |-> FALSE]
    ELSE LET r == prepare_layout(cache.strings, cache.heap, locale)
         IN [layouts |-> IF r.panicked THEN cache.layouts
                         ELSE put(cache.layouts, locale_id, r.layout),
             strings |-> r.strings,
             heap |-> r.heap,
             locale_id |-> locale_id,
             layout |-> r.layout,
             prepared |-> TRUE,
             panicked |-> r.panicked]

\* LayoutCache::default(), on a system with any of the locales installed.
InitCache ==
    /\ installed \in [LocaleIds -> CacheLocales]
    /\ active \in LocaleIds
    /\ layouts = EmptyMap
    /\ built = [id \in LocaleIds |-> 0]
    /\ inserted = EmptyMap
    /\ returned = None
    /\ ever_interned = {}

\* The user switches the keyboard layout: GetKeyboardLayout(0) changes.
ActivateKeyboardLayout(id) ==
    /\ id # active
    /\ active' = id
    /\ UNCHANGED << installed, layouts, built, inserted, returned, poolVars,
                    threadVars, agnosticVars, buildVars,
                    trackerVars, keysVars, keymapVars, kbdVars, modsVars >>

\* What a get_current_layout call leaves in the cache and in the history.
Store(r, hit) ==
    /\ layouts' = r.layouts
    /\ strings' = r.strings
    /\ heap' = r.heap
    /\ ever_interned' = ever_interned \cup strings \cup r.strings
    /\ built' = [built EXCEPT ![r.locale_id] = IF r.prepared THEN @ + 1 ELSE @]
    /\ inserted' = IF r.prepared /\ ~r.panicked /\ r.locale_id \notin DOMAIN inserted
                   THEN put(inserted, r.locale_id, r.layout)
                   ELSE inserted
    /\ returned' = Some([locale_id |-> r.locale_id, layout |-> r.layout,
                         hit |-> hit, prepared |-> r.prepared,
                         panicked |-> r.panicked])

\* cache.get_current_layout()
GetCurrentLayout ==
    /\ \E r \in {get_current_layout([layouts |-> layouts, strings |-> strings,
                                      heap |-> heap], active, installed[active])} :
          Store(r, active \in DOMAIN layouts)
    /\ UNCHANGED << installed, active, threadVars, agnosticVars, buildVars,
                    trackerVars, keysVars, keymapVars, kbdVars, modsVars >>

\* winuser virtual-key codes of the two Windows keys.
VK_LWIN == 91
VK_RWIN == 92

\* The virtual keys get_agnostic_mods asks GetKeyState about.
AgnosticKeys == {VK_SHIFT, VK_CONTROL, VK_MENU, VK_RMENU, VK_LWIN, VK_RWIN}

\* key_pressed(vkey): bit 15 of GetKeyState(vkey), with the keys of
\* down_keys down.
key_pressed(down_keys, vkey) == vkey \in down_keys

\* A slip: Control and Alt are reported as GetKeyState gives them.
get_agnostic_mods_unfiltered(l, down_keys) ==
    LET m1 == set({}, "SHIFT", key_pressed(down_keys, VK_SHIFT))
        m2 == set(m1, "CONTROL", key_pressed(down_keys, VK_CONTROL))
        m3 == set(m2, "ALT", key_pressed(down_keys, VK_MENU))
    IN set(m3, "META", key_pressed(down_keys, VK_LWIN) \/ key_pressed(down_keys, VK_RWIN))

\* LayoutCache::get_agnostic_mods, lines 170-185, for the layout that
\* get_current_layout returned.
get_agnostic_mods(l, down_keys) ==
    LET filter_out_altgr == l.has_alt_graph /\ key_pressed(down_keys, VK_RMENU)
        m1 == set({}, "SHIFT", key_pressed(down_keys, VK_SHIFT))
        m2 == set(m1, "CONTROL", key_pressed(down_keys, VK_CONTROL) /\ ~filter_out_altgr)
        m3 == set(m2, "ALT", key_pressed(down_keys, VK_MENU) /\ ~filter_out_altgr)
    IN set(m3, "META", key_pressed(down_keys, VK_LWIN) \/ key_pressed(down_keys, VK_RWIN))

\* cache.get_agnostic_mods(), with any of the keys down: the layout it
\* reads is the reference into the cache that get_current_layout returned.
GetAgnosticMods ==
    /\ \E r \in {get_current_layout([layouts |-> layouts, strings |-> strings,
                                      heap |-> heap], active, installed[active])} :
          Store(r, active \in DOMAIN layouts)
    /\ \E down_keys \in SUBSET AgnosticKeys :
          /\ pressed' = down_keys
          /\ agnostic' = Some(get_agnostic_mods(layouts'[active], down_keys))
    /\ UNCHANGED << installed, active, threadVars, buildVars,
                    trackerVars, keysVars, keymapVars, kbdVars, modsVars >>

(***************************************************************************)
(* windows/keyboard_layout.rs: LAYOUT_CACHE, the cache behind its mutex    *)
(***************************************************************************)

\* Threads calling into the cache.
NumThreads == 2

Threads == 1 .. NumThreads

\* A slip: the cache is reachable without waiting for the mutex.
mutex_always_free(holder) == TRUE

\* Mutex::lock returns once no other thread holds the guard.
mutex_free(holder) == holder = None

\* LAYOUT_CACHE.lock(): thread t gets the guard, through which alone the
\* LayoutCache can be reached.
Lock(t) ==
    /\ tpc[t] = "idle"
    /\ mutex_free(lock)
    /\ lock' = Some(t)
    /\ tpc' = [tpc EXCEPT ![t] = "lookup"]
    /\ UNCHANGED << tlocale, storeVars, poolVars, agnosticVars, buildVars,
                    trackerVars, keysVars, keymapVars, kbdVars, modsVars >>

\* get_current_layout, lines 158-161: GetKeyboardLayout and the lookup of
\* the entry.
Lookup(t) ==
    /\ tpc[t] = "lookup"
    /\ tlocale' = [tlocale EXCEPT ![t] = Some(active)]
    /\ tpc' = [tpc EXCEPT ![t] = IF active \in DOMAIN layouts THEN "return" ELSE "prepare"]
    /\ UNCHANGED << lock, storeVars, poolVars, agnosticVars, buildVars,
                    trackerVars, keysVars, keymapVars, kbdVars, modsVars >>

\* get_current_layout, lines 161-164: the Vacant arm, prepare_layout and
\* the insertion.
Prepare(t) ==
    /\ tpc[t] = "prepare"
    /\ \E locale_id \in {tlocale[t][1]} :
       \E r \in {prepare_layout(strings, heap, installed[locale_id])} :
          /\ layouts' = IF r.panicked THEN layouts ELSE put(layouts, locale_id, r.layout)
          /\ strings' = r.strings
          /\ heap' = r.heap
          /\ ever_interned' = ever_interned \cup strings \cup r.strings
          /\ built' = [built EXCEPT ![locale_id] = @ + 1]
          /\ inserted' = IF ~r.panicked /\ locale_id \notin DOMAIN inserted
                         THEN put(inserted, locale_id, r.layout)
                         ELSE inserted
    /\ tpc' = [tpc EXCEPT ![t] = "return"]
    /\ UNCHANGED << lock, tlocale, installed, active, returned, agnosticVars, buildVars,
                    trackerVars, keysVars, keymapVars, kbdVars, modsVars >>

\* The guard is dropped after the call.
Unlock(t) ==
    /\ tpc[t] = "return"
    /\ lock' = None
    /\ tpc' = [tpc EXCEPT ![t] = "idle"]
    /\ UNCHANGED << tlocale, storeVars, poolVars, agnosticVars, buildVars,
                    trackerVars, keysVars, keymapVars, kbdVars, modsVars >>

(***************************************************************************)
(* Specifications                                                          *)
(***************************************************************************)

\* The parts a specification leaves alone stay as constructed.
IdleKeymap == xmodmap = {} /\ keymap = None /\ keys = {} /\ ever_mapped = {}
IdleKbd == key_state = ZeroKeyState /\ applied = None
IdleMods == wm_in = 0 /\ wm_out = None
IdleLocale == [v \in VKeys |-> [scancode |-> 0, named |-> FALSE, kind |-> "none"]]
IdleLayout ==
    /\ pc = "idle"
    /\ os = IdleLocale
    /\ strings = {}
    /\ heap = 0
    /\ layout = [keys |-> EmptyMap, has_alt_graph |-> FALSE]
    /\ mod_state = 0
IdleStore ==
    /\ installed = [id \in LocaleIds |-> IdleLocale]
    /\ active = CHOOSE id \in LocaleIds : TRUE
    /\ layouts = EmptyMap
    /\ built = [id \in LocaleIds |-> 0]
    /\ inserted = EmptyMap
    /\ returned = None
    /\ ever_interned = {}
IdleThreads ==
    /\ lock = None
    /\ tpc = [t \in Threads |-> "idle"]
    /\ tlocale = [t \in Threads |-> None]
IdleAgnostic == pressed = {} /\ agnostic = None
IdleCache == IdleStore /\ IdleThreads /\ IdleAgnostic

Options(S) == {None} \cup {Some(x) : x \in S}

\* ModifierKeyState under any sequence of update_state and key_event calls.
Init == InitTracker /\ InitKeys /\ IdleKeymap /\ IdleKbd /\ IdleMods /\ IdleLayout
        /\ IdleCache

Next ==
    \/ \E external \in ModifiersState, except \in Options(Modifier) :
            UpdateState(external, except)
    \/ \E dir \in ElementState, modifier \in Modifier : KeyEvent(dir, modifier)

Spec == Init /\ [][Next]_vars

\* ModifierKeyState under presses and releases of physical keys.
NextKeys == \E dir \in ElementState, k \in PhysKeys : PhysKeyEvent(dir, k)

SpecKeys == Init /\ [][NextKeys]_vars

\* ModifierKeymap under any sequence of resets.
InitMap == InitTracker /\ InitKeys /\ InitKeymap /\ IdleKbd /\ IdleMods /\ IdleLayout
        /\ IdleCache

NextKeymap == ResetFromXConnection

SpecKeymap == InitMap /\ [][NextKeymap]_vars

\* Synthesis into any raw key-state array, then sampling.
InitSynth == InitTracker /\ InitKeys /\ IdleKeymap /\ InitKbd /\ IdleMods /\ IdleLayout
        /\ IdleCache

NextKbd == \E b \in 0 .. (FLAGS_END - 1) : ApplyToKbdState(b)

SpecKbd == InitSynth /\ [][NextKbd]_vars

\* remove_only_ctrl on any bitset.
InitNorm == InitTracker /\ InitKeys /\ IdleKeymap /\ IdleKbd /\ InitMods /\ IdleLayout
        /\ IdleCache

NextMods == RemoveOnlyCtrl

SpecMods == InitNorm /\ [][NextMods]_vars

\* One run of prepare_layout, for any locale.
InitBuild == InitTracker /\ InitKeys /\ IdleKeymap /\ IdleMods /\ InitLayout
        /\ IdleCache

NextLayout == FirstPass \/ SecondPass

SpecLayout == InitBuild /\ [][NextLayout]_vars

\* The cache under any sequence of locale switches and get_current_layout
\* calls.
InitStore == InitTracker /\ InitKeys /\ IdleKeymap /\ IdleKbd /\ IdleMods /\ IdleLayout
        /\ InitCache /\ IdleThreads /\ IdleAgnostic

NextCache ==
    \/ \E id \in LocaleIds : ActivateKeyboardLayout(id)
    \/ GetCurrentLayout

SpecCache == InitStore /\ [][NextCache]_vars

\* The same system with locales whose keys all answer alike.
InitUniform == InitStore /\ \A id \in LocaleIds : installed[id] \in UniformLocales

\* get_agnostic_mods under any pressed keys and locale switches.
NextAgnostic ==
    \/ \E id \in LocaleIds : ActivateKeyboardLayout(id)
    \/ GetAgnosticMods

SpecAgnostic == InitUniform /\ [][NextAgnostic]_vars

\* Threads calling get_current_layout through LAYOUT_CACHE, interleaved
\* with each other and with locale switches.
NextThreads ==
    \/ \E id \in LocaleIds : ActivateKeyboardLayout(id)
    \/ \E t \in Threads : Lock(t)
    \/ \E t \in Threads : Lookup(t)
    \/ \E t \in Threads : Prepare(t)
    \/ \E t \in Threads : Unlock(t)

SpecThreads == InitUniform /\ [][NextThreads]_vars

(***************************************************************************)
(* Claims: ModifierKeyState                                                *)
(***************************************************************************)

\* C1: after update_state(external, except = Some(m)) the tracker's flag for
\* m is what it was before the call, whatever external's flag for m, and
\* every other flag is external's; with except = None the tracker equals
\* external.
C1_UpdateStateExcept ==
    last_call.op = "update_state" =>
        IF last_call.except = None
        THEN state = last_call.external
        ELSE LET f == FlagOf(last_call.except[1]) IN
             /\ (f \in state) <=> (f \in prior)
             /\ \A g \in ModifiersStateFlags \ {f} :
                    (g \in state) <=> (g \in last_call.external)

\* An update_state that excepted Shift while external disagreed with the
\* tracker on Shift, and that changed other flags.
C1_Witness ==
    /\ last_call.op = "update_state"
    /\ last_call.except = Some("Shift")
    /\ "SHIFT" \in prior
    /\ "SHIFT" \notin last_call.external
    /\ state # prior

\* C2: update_state returns Some(new state) exactly when the computed new
\* state differs from the tracked one; when it returns None the tracked
\* state is unchanged; an immediately repeated call with the same arguments
\* returns None.
C2_UpdateStateReturn ==
    last_call.op = "update_state" =>
        LET computed == new_state(prior, last_call.external, last_call.except) IN
        /\ (ret # None) <=> (computed # prior)
        /\ ret # None => (ret = Some(computed) /\ state = computed)
        /\ ret = None => state = prior
        /\ last_call.repeat => ret = None

\* A repeated update_state whose excepted flag differs from external's.
C2_Witness ==
    /\ last_call.op = "update_state"
    /\ last_call.repeat
    /\ ret = None
    /\ last_call.except # None
    /\ state # last_call.external

\* C3 as stated: key_event(Pressed, m) directly followed by
\* key_event(Released, m) returns the tracker to the bitset it held before
\* the press.
C3_PressReleaseRestores ==
    before_press # None => state = before_press[1]

\* C3 amended: press then release of m leaves the bitset held before the
\* press with m's flag cleared, which is that bitset when m's flag was
\* clear before the press.
C3_PressReleaseClears ==
    before_press # None =>
        LET f == FlagOf(last_call.modifier) IN
        /\ state = before_press[1] \ {f}
        /\ f \notin before_press[1] => state = before_press[1]

\* A press and release of a modifier whose flag was clear, other flags set.
C3_Witness ==
    /\ before_press # None
    /\ FlagOf(last_call.modifier) \notin before_press[1]
    /\ before_press[1] # {}
    /\ state = before_press[1]

\* C4: no reference counting: the flag of m equals the direction of the last
\* press or release of a key carrying m, whatever other keys carrying m are
\* still held; so press(k1), press(k2), release(k1) leaves the flag clear.
C4_LastEventWins ==
    \A m \in Modifier :
        /\ last_dir[m] = "Pressed" => FlagOf(m) \in state
        /\ last_dir[m] = "Released" => FlagOf(m) \notin state

\* A key carrying m is still held, the last event for m was a release of
\* another key, and the flag is clear.
C4_Witness ==
    \E k \in held :
        /\ last_dir[k[1]] = "Released"
        /\ FlagOf(k[1]) \notin state

(***************************************************************************)
(* Claims: ModifierKeymap                                                  *)
(***************************************************************************)

\* The sets (by offset) of raw table km that hold keycode k.
SlotsOf(km, k) ==
    {s \in Slots : \E i \in 0 .. (km.max_keypermod - 1) :
                        km.modifiermap[s * km.max_keypermod + i + 1] = k}

TrackedSlots == {SHIFT_OFFSET, CONTROL_OFFSET, ALT_OFFSET, LOGO_OFFSET}

\* C5 as stated: after a reset, a keycode in exactly one of the eight sets of
\* the raw table gets that set's modifier; a keycode in no set, and the
\* padding keycode 0, get nothing.
C5_ExactlyOneSlot ==
    keymap # None =>
        /\ \A k \in 1 .. MaxKeycode :
            /\ \A s \in Slots :
                  SlotsOf(keymap[1], k) = {s} =>
                      get_modifier(keys, k) = Some(SlotModifier(s))
            /\ SlotsOf(keymap[1], k) = {} => get_modifier(keys, k) = None
        /\ get_modifier(keys, 0) = None

\* C5 amended: after a reset, a keycode in exactly one of the four tracked
\* sets (Shift 0, Control 2, Alt 3, Logo 6) gets that set's modifier,
\* whatever untracked sets also hold it; a keycode in no tracked set, and
\* the padding keycode 0, get nothing.
C5_ExactlyOneTrackedSlot ==
    keymap # None =>
        /\ \A k \in 1 .. MaxKeycode :
            /\ \A s \in TrackedSlots :
                  SlotsOf(keymap[1], k) \cap TrackedSlots = {s} =>
                      get_modifier(keys, k) = Some(SlotModifier(s))
            /\ SlotsOf(keymap[1], k) \cap TrackedSlots = {} =>
                  get_modifier(keys, k) = None
        /\ get_modifier(keys, 0) = None

\* A reset from a table with padding, a keycode only in the Alt set and in
\* an untracked set.
C5_Witness ==
    /\ keymap # None
    /\ SlotsOf(keymap[1], 0) # {}
    /\ \E k \in 1 .. MaxKeycode :
        /\ SlotsOf(keymap[1], k) \cap TrackedSlots = {ALT_OFFSET}
        /\ SlotsOf(keymap[1], k) \ TrackedSlots # {}
        /\ get_modifier(keys, k) = Some("Alt")

\* C6: the map holds at most one Modifier per keycode, and a keycode in
\* several tracked sets gets the modifier of the set read last in the order
\* Shift, Ctrl, Alt, Logo.
C6_LastSlotWins ==
    /\ \A p \in keys : \A q \in keys : p[1] = q[1] => p = q
    /\ keymap # None =>
        \A k \in 1 .. MaxKeycode :
            LET in == SlotsOf(keymap[1], k) \cap TrackedSlots IN
            in # {} => get_modifier(keys, k) = Some(SlotModifier(Max(in)))

\* A keycode in the Shift and Alt sets resolves to Alt.
C6_Witness ==
    /\ keymap # None
    /\ \E k \in 1 .. MaxKeycode :
        /\ {SHIFT_OFFSET, ALT_OFFSET} \subseteq SlotsOf(keymap[1], k)
        /\ LOGO_OFFSET \notin SlotsOf(keymap[1], k)
        /\ get_modifier(keys, k) = Some("Alt")

\* C7: after any sequence of resets the map is what the latest raw table
\* alone gives: a keycode in none of its tracked sets has no modifier, also
\* when an earlier table mapped it.
C7_ResetDiscards ==
    keymap # None =>
        /\ keys = reset_from_x_keymap({}, keymap[1])
        /\ \A k \in KeyCodes :
              SlotsOf(keymap[1], k) \cap TrackedSlots = {} =>
                  get_modifier(keys, k) = None

\* A keycode an earlier reset mapped is absent from the latest table's
\* tracked sets.
C7_Witness ==
    /\ keymap # None
    /\ \E k \in ever_mapped :
        /\ SlotsOf(keymap[1], k) \cap TrackedSlots = {}
        /\ get_modifier(keys, k) = None

(***************************************************************************)
(* Claims: WindowsModifiers                                                *)
(***************************************************************************)

\* C8: whatever the raw array held before, active_modifiers of the array
\* after b.apply_to_kbd_state reports b's Shift, Control and Alt flags
\* exactly.
C8_SampleAfterSynthesize ==
    applied # None =>
        \A f \in {SHIFT, CONTROL, ALT} :
            contains(active_modifiers(key_state), f) <=> contains(applied[1], f)

\* A bitset with only Control was written into an array that had Caps Lock
\* toggled; Control is sampled, Shift and Alt are not.
C8_Witness ==
    /\ applied = Some(CONTROL)
    /\ toggled(key_state[VK_CAPITAL])
    /\ active_modifiers(key_state) = CONTROL + CAPS_LOCK

\* C9: remove_only_ctrl clears Control when Alt is unset and keeps Control
\* as it is when Alt is set; Shift, Alt and CapsLock are kept as they are.
C9_RemoveOnlyCtrl ==
    wm_out # None =>
        /\ ~contains(wm_in, ALT) => ~contains(wm_out[1], CONTROL)
        /\ contains(wm_in, ALT) =>
              (contains(wm_out[1], CONTROL) <=> contains(wm_in, CONTROL))
        /\ \A f \in {SHIFT, ALT, CAPS_LOCK} :
              contains(wm_out[1], f) <=> contains(wm_in, f)

\* Control without Alt, with Shift and CapsLock: Control is removed.
C9_Witness ==
    /\ wm_out # None
    /\ wm_in = SHIFT + CONTROL + CAPS_LOCK
    /\ wm_out[1] = SHIFT + CAPS_LOCK

(***************************************************************************)
(* Claims: prepare_layout                                                  *)
(***************************************************************************)

\* Virtual key v of the locale composes to a character under the empty
\* bitset and to a different character under exactly {Control, Alt}.
ComposesAltGr(locale, v) ==
    LET plain == to_unicode_string(locale, apply_to_kbd_state(0, ZeroKeyState), v)
        chord == to_unicode_string(locale,
                                   apply_to_kbd_state(CONTROL + ALT, ZeroKeyState), v)
    IN /\ plain.tag = "Str"
       /\ chord.tag = "Str"
       /\ plain.str # chord.str

\* The build stores an entry for virtual key v under v's logical key code,
\* made by composition, and no later virtual key overwrites it.
ComposedAndKept(locale, v) ==
    /\ MapVirtualKeyExW(locale, v) # 0
    /\ ~locale[v].named
    /\ \A w \in VKeys :
          w > v /\ MapVirtualKeyExW(locale, w) # 0 =>
              native_key_to_code(MapVirtualKeyExW(locale, w))
                  # native_key_to_code(MapVirtualKeyExW(locale, v))

\* Some virtual key of the locale has the right-Alt logical key code.
HasAltRightKey(locale) ==
    \E w \in VKeys :
        /\ MapVirtualKeyExW(locale, w) # 0
        /\ native_key_to_code(MapVirtualKeyExW(locale, w)) = KeyCode_AltRight

RoundKeyState(m) == apply_to_kbd_state(m, ZeroKeyState)

\* The loop over the bitsets has finished.
FirstPassOver == pc \in {"second_pass", "done"}

\* The entry stored for virtual key v's logical key code in the table of
\* bitset m.
StoredFor(v, m) ==
    get_key(layout, m, MapVirtualKeyExW(os, v),
            native_key_to_code(MapVirtualKeyExW(os, v)))

\* The second pass has replaced the entries of v's logical key code.
Patched(v) ==
    /\ pc = "done"
    /\ layout.has_alt_graph
    /\ native_key_to_code(MapVirtualKeyExW(os, v)) = KeyCode_AltRight

\* Under bitset m, the first composition call for v signals a dead key and
\* the second call returns nothing.
DeadThenNothing(v, m) ==
    /\ ToUnicodeEx(os, v, RoundKeyState(m), 1).len < 0
    /\ ToUnicodeEx(os, v, RoundKeyState(m), 2).len = 0

\* Under bitset m, the first composition call for v signals a dead key and
\* the second call returns a character.
DeadThenChar(v, m) ==
    /\ ToUnicodeEx(os, v, RoundKeyState(m), 1).len < 0
    /\ ToUnicodeEx(os, v, RoundKeyState(m), 2).len > 0

\* C11 as stated: a virtual key whose first composition call signals a dead
\* key with accent c and whose second call returns nothing resolves to
\* Dead(Some(c)).
C11_DeadKeepsAccent ==
    FirstPassOver =>
        \A v \in VKeys, m \in 0 .. (FLAGS_END - 1) :
            (ComposedAndKept(os, v) /\ ~Patched(v) /\ DeadThenNothing(v, m)) =>
                StoredFor(v, m) = Dead(Some(ToUnicodeEx(os, v, RoundKeyState(m), 1).buf))

\* C11 amended: a virtual key whose first composition call signals a dead
\* key resolves to Dead(None) when the second call returns nothing, whatever
\* accent the first call left in the buffer, and to Dead(Some(c)) when the
\* second call returns the character c.
C11_DeadFromSecondCall ==
    FirstPassOver =>
        \A v \in VKeys, m \in 0 .. (FLAGS_END - 1) :
            (ComposedAndKept(os, v) /\ ~Patched(v)) =>
                /\ DeadThenNothing(v, m) => StoredFor(v, m) = Dead(None)
                /\ DeadThenChar(v, m) =>
                      StoredFor(v, m) = Dead(Some(ToUnicodeEx(os, v, RoundKeyState(m), 2).buf))

\* A finished build in which one key is a dead key whose second call
\* returned nothing, stored as Dead(None), and another a dead key whose
\* second call returned the accent, stored as Dead(Some("^")).
C11_Witness ==
    /\ pc = "done"
    /\ \E v, w \in VKeys :
          /\ ComposedAndKept(os, v) /\ ~Patched(v) /\ DeadThenNothing(v, 0)
          /\ ToUnicodeEx(os, v, RoundKeyState(0), 1).buf = "^"
          /\ StoredFor(v, 0) = Dead(None)
          /\ ComposedAndKept(os, w) /\ ~Patched(w) /\ DeadThenChar(w, 0)
          /\ StoredFor(w, 0) = Dead(Some("^"))

\* Virtual key v has the numpad divide logical key code, is not resolved as
\* non-printable, composes to nothing under bitset m, and is the last
\* virtual key with that key code.
DivideWithoutText(v, m) ==
    /\ native_key_to_code(MapVirtualKeyExW(os, v)) = KeyCode_NumpadDivide
    /\ ComposedAndKept(os, v)
    /\ to_unicode_string(os, RoundKeyState(m), v) = NoneResult

\* C12: for the numpad divide key with a non-zero scancode, not resolved as
\* non-printable and composing to nothing, the table of every bitset with
\* Control and Alt both unset holds Character("/"), and the table of every
\* bitset with Control or Alt set holds the Unidentified placeholder.
C12_NumpadDivide ==
    FirstPassOver =>
        \A v \in VKeys, m \in 0 .. (FLAGS_END - 1) :
            DivideWithoutText(v, m) =>
                IF ~contains(m, CONTROL) /\ ~contains(m, ALT)
                THEN /\ StoredFor(v, m).tag = "Character"
                     /\ StoredFor(v, m).ref.text = "/"
                ELSE StoredFor(v, m) = Unidentified(SC_NUMPAD_DIVIDE)

\* A finished build with a numpad divide key that composes to nothing:
\* "/" under {Shift, CapsLock}, the placeholder under {Control}.
C12_Witness ==
    /\ pc = "done"
    /\ \E v \in VKeys :
          /\ DivideWithoutText(v, SHIFT + CAPS_LOCK)
          /\ DivideWithoutText(v, CONTROL)
          /\ StoredFor(v, SHIFT + CAPS_LOCK) = Character(StaticSlash)
          /\ StoredFor(v, CONTROL) = Unidentified(SC_NUMPAD_DIVIDE)

(***************************************************************************)
(* Claims: the order of the passes of prepare_layout                       *)
(***************************************************************************)

\* C17: prepare_layout processes the bitsets in increasing order from 0, so
\* the tables stored so far are those of the bitsets below the one being
\* processed and the empty bitset's table is stored when the AltGr
\* comparison runs for {Control, Alt}; the lookup of that table never
\* panics, and the finished Layout holds a table for each of the 16 bitsets.
C17_AscendingNoPanic ==
    /\ pc # "panicked"
    /\ pc = "first_pass" =>
          /\ mod_state \in 0 .. (FLAGS_END - 1)
          /\ DOMAIN layout.keys = 0 .. (mod_state - 1)
          /\ mod_state >= CONTROL + ALT => 0 \in DOMAIN layout.keys
    /\ FirstPassOver => DOMAIN layout.keys = 0 .. (FLAGS_END - 1)

\* The round for {Control, Alt} has just run its comparison against the
\* empty bitset's table and found a difference.
C17_Witness ==
    /\ pc = "first_pass"
    /\ mod_state = CONTROL + ALT + 1
    /\ 0 \in DOMAIN layout.keys
    /\ layout.has_alt_graph

\* C18: the second pass changes entries only when has_alt_graph is true,
\* and then only the entries under the right-Alt logical key code, each of
\* which becomes AltGraph; no table and no entry is added or removed, and
\* every entry under another key code stays as the first pass stored it.
C18_SecondPassFrame ==
    [][pc = "second_pass" =>
          /\ layout'.has_alt_graph = layout.has_alt_graph
          /\ DOMAIN layout'.keys = DOMAIN layout.keys
          /\ \A m \in DOMAIN layout.keys :
                /\ DOMAIN layout'.keys[m] = DOMAIN layout.keys[m]
                /\ \A k \in DOMAIN layout.keys[m] :
                      layout'.keys[m][k] =
                          IF layout.has_alt_graph /\ k = KeyCode_AltRight
                          THEN AltGraph
                          ELSE layout.keys[m][k]]_vars

\* A finished build with AltGr in which the right-Alt entries were
\* replaced and a composed entry under another key code is still there.
C18_Witness ==
    /\ pc = "done"
    /\ layout.has_alt_graph
    /\ \A m \in 0 .. (FLAGS_END - 1) :
          /\ KeyCode_AltRight \in DOMAIN layout.keys[m]
          /\ layout.keys[m][KeyCode_AltRight] = AltGraph
          /\ KeyCode_KeyA \in DOMAIN layout.keys[m]
          /\ layout.keys[m][KeyCode_KeyA].tag = "Character"

(***************************************************************************)
(* Claims: Caps Lock in the synthesized key state                          *)
(***************************************************************************)

\* C19: throughout prepare_layout the raw key-state array, the one handed
\* to the composition calls of the round just run and the one synthesized
\* for the round to come, never has the toggle bit of Caps Lock set, and
\* active_modifiers of it never reports CAPS_LOCK.
C19_NoCapsToggle ==
    pc \in {"first_pass", "second_pass", "done"} =>
        /\ ~toggled(key_state[VK_CAPITAL])
        /\ ~contains(active_modifiers(key_state), CAPS_LOCK)
        /\ pc = "first_pass" =>
              LET ks == apply_to_kbd_state(mod_state, key_state) IN
              /\ ~toggled(ks[VK_CAPITAL])
              /\ ~contains(active_modifiers(ks), CAPS_LOCK)

\* The round for {Shift, CapsLock} has just run: Caps Lock is marked down
\* in the array, and sampling reports Shift but not CapsLock.
C19_Witness ==
    /\ pc = "first_pass"
    /\ mod_state = SHIFT + CAPS_LOCK + 1
    /\ down(key_state[VK_CAPITAL])
    /\ active_modifiers(key_state) = SHIFT

(***************************************************************************)
(* Claims: LayoutCache                                                     *)
(***************************************************************************)

\* The Character keys held by the cached Layouts, each with its locale id,
\* bitset, logical key code and the string it references.
CachedCharacters ==
    UNION {UNION {{[locale_id |-> id, ms |-> m, code |-> k,
                    ref |-> layouts[id].keys[m][k].ref] :
                        k \in {c \in DOMAIN layouts[id].keys[m] :
                                  layouts[id].keys[m][c].tag = "Character"}} :
                  m \in DOMAIN layouts[id].keys} :
           id \in DOMAIN layouts}

\* The entry c was stored for a virtual key whose composition call returned
\* text under c's bitset.
ComposedEntry(c) ==
    \E v \in VKeys :
        /\ ComposedAndKept(installed[c.locale_id], v)
        /\ native_key_to_code(MapVirtualKeyExW(installed[c.locale_id], v)) = c.code
        /\ to_unicode_string(installed[c.locale_id], RoundKeyState(c.ms), v).tag = "Str"

\* C13: over any sequence of builds the string pool keeps every entry it
\* ever held and never holds two entries with equal text, and any two
\* Character keys obtained by composing the same text, in any cached Layouts
\* and under any bitsets, reference the same pool entry.
C13_PoolInterning ==
    /\ ever_interned \subseteq strings
    /\ \A r1, r2 \in strings : r1.text = r2.text => r1 = r2
    /\ \A c1, c2 \in {c \in CachedCharacters : ComposedEntry(c)} :
          c1.ref.text = c2.ref.text =>
              /\ c1.ref = c2.ref
              /\ c1.ref \in strings

\* Two cached Layouts of different locales hold keys composed to "a" under
\* different bitsets, both referencing one pool entry, beside other entries.
C13_Witness ==
    /\ Cardinality(strings) >= 2
    /\ \E c1, c2 \in CachedCharacters :
          /\ c1.locale_id # c2.locale_id
          /\ c1.ms # c2.ms
          /\ ComposedEntry(c1) /\ ComposedEntry(c2)
          /\ c1.ref.text = "a" /\ c2.ref.text = "a"
          /\ c1.ref = c2.ref
          /\ c1.ref \in strings

\* C14: over any sequence of get_current_layout calls and locale switches,
\* prepare_layout runs at most once per locale id, exactly for the ids in
\* the cache; a call that finds its id cached returns the stored Layout
\* without preparing, a call that does not prepares it; and every cached
\* Layout is still the one inserted for its id.
C14_BuiltOncePerLocale ==
    /\ \A id \in LocaleIds :
          /\ built[id] <= 1
          /\ built[id] = 1 <=> id \in DOMAIN layouts
    /\ DOMAIN inserted = DOMAIN layouts
    /\ \A id \in DOMAIN layouts : layouts[id] = inserted[id]
    /\ returned # None =>
          /\ returned[1].hit <=> ~returned[1].prepared
          /\ ~returned[1].panicked
          /\ returned[1].locale_id \in DOMAIN layouts
          /\ returned[1].layout = layouts[returned[1].locale_id]

\* Both locales are cached, each built once, and the most recent call found
\* its locale cached and returned the stored Layout without preparing.
C14_Witness ==
    /\ DOMAIN layouts = LocaleIds
    /\ \A id \in LocaleIds : built[id] = 1
    /\ returned # None
    /\ returned[1].hit
    /\ ~returned[1].prepared
    /\ returned[1].layout = inserted[returned[1].locale_id]

\* C15: with several threads calling get_current_layout through the mutex,
\* at most one thread is between taking the guard and dropping it, that
\* thread is the holder, and prepare_layout runs at most once per locale id
\* whatever the interleaving.
C15_OneThreadInside ==
    /\ Cardinality({t \in Threads : tpc[t] # "idle"}) <= 1
    /\ \A t \in Threads : tpc[t] # "idle" <=> lock = Some(t)
    /\ \A id \in LocaleIds : built[id] <= 1

\* Two threads asked for the same locale: it was built once, and the
\* second of them holds the guard and found it cached.
C15_Witness ==
    \E t, u \in Threads, id \in LocaleIds :
        /\ t # u
        /\ tlocale[t] = Some(id)
        /\ tlocale[u] = Some(id)
        /\ built[id] = 1
        /\ tpc[u] = "idle"
        /\ tpc[t] = "return"
        /\ lock = Some(t)

\* C16: get_agnostic_mods reports neither CONTROL nor ALT when the active
\* layout has has_alt_graph and the right Alt key is down, whatever the
\* Control and Alt keys; otherwise CONTROL and ALT are the pressed states of
\* VK_CONTROL and VK_MENU; SHIFT is the pressed state of VK_SHIFT and META
\* that of either Windows key, in both cases.
C16_AgnosticMods ==
    agnostic # None =>
        LET l == layouts[returned[1].locale_id]
            filtered == l.has_alt_graph /\ VK_RMENU \in pressed
        IN /\ filtered => ("CONTROL" \notin agnostic[1] /\ "ALT" \notin agnostic[1])
           /\ ~filtered =>
                 /\ "CONTROL" \in agnostic[1] <=> VK_CONTROL \in pressed
                 /\ "ALT" \in agnostic[1] <=> VK_MENU \in pressed
           /\ "SHIFT" \in agnostic[1] <=> VK_SHIFT \in pressed
           /\ "META" \in agnostic[1] <=> (VK_LWIN \in pressed \/ VK_RWIN \in pressed)
           /\ agnostic[1] \subseteq {"SHIFT", "CONTROL", "ALT", "META"}

\* On a layout with AltGr, with right Alt, Control, Alt, Shift and the left
\* Windows key down, the call reported SHIFT and META only.
C16_Witness ==
    /\ agnostic = Some({"SHIFT", "META"})
    /\ layouts[returned[1].locale_id].has_alt_graph
    /\ pressed = {VK_RMENU, VK_CONTROL, VK_MENU, VK_SHIFT, VK_LWIN}

\* C20 as stated: the text of every Character key of every cached Layout
\* is an entry of the string pool, and two Character keys with equal text
\* reference the same storage.
C20_AllCharactersPooled ==
    /\ \A c \in CachedCharacters : \E r \in strings : r.text = c.ref.text
    /\ \A c1, c2 \in CachedCharacters : c1.ref.text = c2.ref.text => c1.ref = c2.ref

\* C20 amended: every Character key of every cached Layout references an
\* entry of the string pool, except the keys the numpad divide workaround
\* stored, which reference the static "/" that is never in the pool; two
\* Character keys with equal text reference the same storage unless exactly
\* one of them is such a key.
C20_CharactersPooledButStatic ==
    /\ StaticSlash \notin strings
    /\ \A c \in CachedCharacters :
          \/ c.ref \in strings
          \/ /\ c.ref = StaticSlash
             /\ c.code = KeyCode_NumpadDivide
             /\ ~contains(c.ms, CONTROL)
             /\ ~contains(c.ms, ALT)
    /\ \A c1, c2 \in CachedCharacters :
          (c1.ref.text = c2.ref.text /\ c1.ref # c2.ref) =>
              (c1.ref = StaticSlash) # (c2.ref = StaticSlash)

\* The cache holds a key composed to "/", referencing the pool, and a
\* numpad divide key referencing the static "/".
C20_Witness ==
    \E c1, c2 \in CachedCharacters :
        /\ c1.ref.text = "/"
        /\ c1.ref \in strings
        /\ ComposedEntry(c1)
        /\ c2.ref = StaticSlash
        /\ c2.code = KeyCode_NumpadDivide

====
